---- MODULE Spec2Model ----
(***************************************************************************)
(* Model of the chat list page, src/src/app/chat/page.tsx (ChatListPage).  *)
(*                                                                         *)
(* The page reads userProfile, chats, pairedUsers and isInitialized from   *)
(* the application context, merges chats with placeholder entries for the  *)
(* paired users that have no chat (createCombinedChatList), filters the    *)
(* merged list by the search query (filteredChats), renders one item per   *)
(* kept chat and navigates when an item is clicked (handleChatClick).      *)
(*                                                                         *)
(* Strings that the code only compares or joins (user ids, chat ids,       *)
(* avatars, routes) are TLA+ strings.  Strings that the code lower-cases   *)
(* and searches (display names, the search query) are sequences of         *)
(* one-character strings.  An optional property of a JavaScript object is  *)
(* a record field that is present or not.                                  *)
(***************************************************************************)
EXTENDS Integers, Sequences, FiniteSets, TLC

VARIABLES
    userProfile,    \* context: the local profile, or Null
    chats,          \* context: the real conversations
    pairedUsers,    \* context: the paired contacts
    isInitialized,  \* context: TRUE once the stores are loaded
    searchQuery,    \* useState('') of the search box
    view,           \* what the last render returned
    allChats,       \* createCombinedChatList() of the last render
    filteredChats,  \* allChats.filter(...) of the last render
    items,          \* the list items of the last render
    routerPath,     \* the route the Next.js router shows
    location,       \* window.location.href, "" until a click sets it
    createCalls     \* the calls made to createOrGetChat, in order

vars == <<userProfile, chats, pairedUsers, isInitialized, searchQuery, view,
          allChats, filteredChats, items, routerPath, location, createCalls>>

-----------------------------------------------------------------------------
(* Bounds of the model *)

MaxChats == 2
MaxPaired == 2
MaxUnread == 12

-----------------------------------------------------------------------------
(* Values *)

Null == [null |-> TRUE]

\* The id the code cannot use: undefined and '' are both falsy.
NoId == ""

Ids == {"A", "M", "Z"}

\* Array.prototype.sort() without a comparator orders strings by code unit.
CodeUnit == [id \in Ids |-> CASE id = "A" -> 65 [] id = "M" -> 77 [] id = "Z" -> 90]

Robert == <<"R", "o", "b", "e", "r", "t">>
Bob == <<"B", "o", "b">>
Alice == <<"A", "l", "i", "c", "e">>
Ally == <<"A", "l", "l", "y">>
Max == <<"M", "a", "x">>

ReportedName == [id \in Ids |-> CASE id = "A" -> Robert [] id = "M" -> Max [] id = "Z" -> Alice]

\* A nickname the local user gave; Z's is the empty string.
NickName == [id \in Ids |-> CASE id = "A" -> Bob [] id = "M" -> Ally [] id = "Z" -> <<>>]

AvatarOf == [id \in Ids |-> id \o ".png"]
HasAvatar == {"A", "M"}

Queries == { <<>>, <<"b", "o", "b">>, <<"R", "o", "b">> }

UpperCase == <<"A", "B", "C", "D", "E", "F", "G", "H", "I", "J", "K", "L", "M",
               "N", "O", "P", "Q", "R", "S", "T", "U", "V", "W", "X", "Y", "Z">>
LowerCase == <<"a", "b", "c", "d", "e", "f", "g", "h", "i", "j", "k", "l", "m",
               "n", "o", "p", "q", "r", "s", "t", "u", "v", "w", "x", "y", "z">>

\* String.prototype.toLowerCase
toLowerCase(s) ==
    [i \in 1..Len(s) |->
        IF \E k \in 1..Len(UpperCase) : UpperCase[k] = s[i]
        THEN LowerCase[CHOOSE k \in 1..Len(UpperCase) : UpperCase[k] = s[i]]
        ELSE s[i]]

\* String.prototype.includes
includes(s, q) ==
    \E i \in 0..(Len(s) - Len(q)) : SubSeq(s, i + 1, i + Len(q)) = q

\* Array.prototype.includes on participants
hasParticipant(chat, id) ==
    \E i \in 1..Len(chat.participants) : chat.participants[i] = id

\* [a, b].sort()
sortPair(a, b) == IF CodeUnit[a] <= CodeUnit[b] THEN <<a, b>> ELSE <<b, a>>

\* [a, b].join('_')
joinPair(p) == p[1] \o "_" \o p[2]

\* a || b on display names: undefined and '' are falsy
nameOf(user) ==
    IF "localDisplayName" \in DOMAIN user /\ user.localDisplayName # <<>>
    THEN user.localDisplayName
    ELSE user.displayName

\* { displayName, avatar } with avatar taken from an object that may lack it
detailsOf(name, from) ==
    IF "avatar" \in DOMAIN from
    THEN [displayName |-> name, avatar |-> from.avatar]
    ELSE [displayName |-> name]

-----------------------------------------------------------------------------
(* Inputs: what the application context can hand to the page *)

Profiles ==
    { Null,
      [userId |-> "M", displayName |-> Max, avatar |-> AvatarOf["M"]] }

storedDetails(id) ==
    IF id \in HasAvatar
    THEN [displayName |-> ReportedName[id], avatar |-> AvatarOf[id]]
    ELSE [displayName |-> ReportedName[id]]

\* A real conversation of the store: two distinct participants in either
\* order, the canonical chat id, details for both.
realChat(a, b, unread) ==
    [chatId |-> joinPair(sortPair(a, b)),
     participants |-> <<a, b>>,
     participantDetails |-> (a :> storedDetails(a)) @@ (b :> storedDetails(b)),
     unreadCount |-> unread]

RealChats(unreads) ==
    { realChat(a, b, n) : a \in Ids, b \in Ids, n \in unreads } \
    { realChat(a, a, n) : a \in Ids, n \in unreads }

pairOf(chat) == { chat.participants[i] : i \in 1..Len(chat.participants) }

\* The store holds at most one conversation per unordered pair.
ChatLists(unreads, max) ==
    { s \in UNION { [1..n -> RealChats(unreads)] : n \in 0..max } :
        \A i, j \in 1..Len(s) : i # j => pairOf(s[i]) # pairOf(s[j]) }

\* A paired contact: with or without a nickname, with or without an avatar.
pairedUser(id, nicknamed) ==
    CASE id \in HasAvatar /\ nicknamed ->
            [userId |-> id, displayName |-> ReportedName[id],
             localDisplayName |-> NickName[id], avatar |-> AvatarOf[id]]
      [] id \in HasAvatar /\ ~nicknamed ->
            [userId |-> id, displayName |-> ReportedName[id], avatar |-> AvatarOf[id]]
      [] id \notin HasAvatar /\ nicknamed ->
            [userId |-> id, displayName |-> ReportedName[id],
             localDisplayName |-> NickName[id]]
      [] OTHER ->
            [userId |-> id, displayName |-> ReportedName[id]]

\* A with and without the nickname Bob, Z with the empty nickname, and M,
\* the id of the local profile, without one.
PairedUserOptions ==
    { pairedUser("A", FALSE), pairedUser("A", TRUE),
      pairedUser("Z", TRUE), pairedUser("M", FALSE) }

\* The pairing store's list is taken as it comes: an id may occur twice and
\* may be the local user's.
PairedLists(max) == UNION { [1..n -> PairedUserOptions] : n \in 0..max }

-----------------------------------------------------------------------------
(* createCombinedChatList *)

\* Mutant: the lookup compares the participants array with [self, userId]
\* instead of testing membership.
existingChatOrdered(ch, up, userId) ==
    \E i \in 1..Len(ch) : ch[i].participants = <<up.userId, userId>>

\* chats.find(chat => chat.participants.includes(userId) &&
\*                    chat.participants.includes(userProfile.userId)) is found
existingChat(ch, up, userId) ==
    \E i \in 1..Len(ch) :
        hasParticipant(ch[i], userId) /\ hasParticipant(ch[i], up.userId)

\* The placeholder built for a paired user without a chat.  In the object
\* literal the key [userId] comes after [userProfile.userId] and wins when
\* the two are equal.
newChat(up, user) ==
    LET sortedParticipantIds == sortPair(up.userId, user.userId)
    IN  [chatId |-> joinPair(sortedParticipantIds),
         participants |-> sortedParticipantIds,
         participantDetails |->
            (user.userId :> detailsOf(nameOf(user), user)) @@
            (up.userId :> detailsOf(up.displayName, up)),
         unreadCount |-> 0,
         isPending |-> TRUE]

\* Mutant: chatList.unshift(newChat)
unshiftChat(chatList, chat) == <<chat>> \o chatList

\* chatList.push(newChat)
pushChat(chatList, chat) == Append(chatList, chat)

RECURSIVE forEachPairedUser(_, _, _, _, _)
forEachPairedUser(up, ch, pu, chatList, i) ==
    IF i > Len(pu)
    THEN chatList
    ELSE forEachPairedUser(up, ch, pu,
            IF existingChat(ch, up, pu[i].userId)
            THEN chatList
            ELSE pushChat(chatList, newChat(up, pu[i])),
            i + 1)

\* Mutant: without a profile the chats are returned as they are.
createCombinedChatListNoGuard(up, ch, pu) ==
    IF up = Null THEN ch ELSE forEachPairedUser(up, ch, pu, ch, 1)

createCombinedChatList(up, ch, pu) ==
    IF up = Null THEN <<>> ELSE forEachPairedUser(up, ch, pu, ch, 1)

-----------------------------------------------------------------------------
(* filteredChats and the list items *)

\* chat.isPending, undefined on a real conversation
isPendingChat(chat) == "isPending" \in DOMAIN chat /\ chat.isPending

\* chat.participants.find(id => id !== userProfile.userId)
otherParticipantId(chat, up) ==
    LET p == chat.participants
        found == { i \in 1..Len(p) : p[i] # up.userId }
    IN  IF found = {} THEN NoId
        ELSE p[CHOOSE i \in found : \A j \in found : i <= j]

\* The name the filter matches against.
filterName(chat, other, pu) == chat.participantDetails[other].displayName

\* The callback of allChats.filter
keepChat(chat, up, pu, q) ==
    IF up = Null THEN FALSE
    ELSE LET other == otherParticipantId(chat, up)
         IN  IF other = NoId THEN FALSE
             ELSE IF other \notin DOMAIN chat.participantDetails THEN FALSE
             ELSE includes(toLowerCase(filterName(chat, other, pu)), toLowerCase(q))

filterChats(all, up, pu, q) ==
    LET keep(chat) == keepChat(chat, up, pu, q)
    IN  SelectSeq(all, keep)

\* pairedUsers.find(user => user.userId === id), Null when there is none
findPairedUser(pu, id) ==
    LET found == { i \in 1..Len(pu) : pu[i].userId = id }
    IN  IF found = {} THEN Null
        ELSE pu[CHOOSE i \in found : \A j \in found : i <= j]

\* pairedUser?.localDisplayName || pairedUser?.displayName || otherParticipant.displayName
displayName(chat, other, pu) ==
    LET paired == findPairedUser(pu, other)
    IN  IF paired # Null /\ "localDisplayName" \in DOMAIN paired
           /\ paired.localDisplayName # <<>>
        THEN paired.localDisplayName
        ELSE IF paired # Null /\ paired.displayName # <<>>
        THEN paired.displayName
        ELSE chat.participantDetails[other].displayName

\* chat.unreadCount ? <span> : null
showBadge(unreadCount) == unreadCount # 0

\* Mutant: chat.unreadCount >= 9 ? '9+' : chat.unreadCount
badgeTextFromNine(unreadCount) ==
    IF unreadCount >= 9 THEN "9+" ELSE ToString(unreadCount)

\* chat.unreadCount > 9 ? '9+' : chat.unreadCount
badgeText(unreadCount) ==
    IF unreadCount > 9 THEN "9+" ELSE ToString(unreadCount)

\* The callback of filteredChats.map: what one list item shows and what its
\* onClick passes to handleChatClick.
listItem(chat, up, pu) ==
    IF up = Null THEN Null
    ELSE LET other == otherParticipantId(chat, up)
         IN  IF other = NoId THEN Null
             ELSE IF other \notin DOMAIN chat.participantDetails THEN Null
             ELSE IF showBadge(chat.unreadCount)
             THEN [key |-> chat.chatId, participantId |-> other,
                   displayName |-> displayName(chat, other, pu),
                   isPendingChat |-> isPendingChat(chat),
                   unreadCount |-> chat.unreadCount,
                   badge |-> badgeText(chat.unreadCount)]
             ELSE [key |-> chat.chatId, participantId |-> other,
                   displayName |-> displayName(chat, other, pu),
                   isPendingChat |-> isPendingChat(chat),
                   unreadCount |-> chat.unreadCount]

listItems(filtered, up, pu) ==
    [i \in 1..Len(filtered) |-> listItem(filtered[i], up, pu)]

-----------------------------------------------------------------------------
(* Effects and handlers *)

\* useEffect: if (isInitialized && !userProfile) router.replace('/onboarding')
onboardingEffect(initialized, up, path) ==
    IF initialized /\ up = Null THEN "/onboarding" ELSE path

\* `/chat/messages/${chatId}`
messagesRoute(chatId) == "/chat/messages/" \o chatId

\* `User ${participantId.substring(0, 6)}`; the ids of the model are one
\* character long
fallbackName(participantId) == <<"U", "s", "e", "r", " ", participantId>>

\* pairedUser?.localDisplayName || pairedUser?.displayName || `User ...`
clickName(pu, participantId) ==
    LET paired == findPairedUser(pu, participantId)
    IN  IF paired # Null /\ "localDisplayName" \in DOMAIN paired
           /\ paired.localDisplayName # <<>>
        THEN paired.localDisplayName
        ELSE IF paired # Null /\ paired.displayName # <<>>
        THEN paired.displayName
        ELSE fallbackName(participantId)

\* The conversation store's createOrGetChat: the conversation of the pair
\* if the store has one, else a new one under the canonical chat id.
createOrGetChat(ch, up, participantId) ==
    LET found == { i \in 1..Len(ch) :
                     pairOf(ch[i]) = {up.userId, participantId} }
    IN  IF found # {}
        THEN ch[CHOOSE i \in found : \A j \in found : i <= j]
        ELSE [chatId |-> joinPair(sortPair(up.userId, participantId)),
              participants |-> sortPair(up.userId, participantId),
              participantDetails |->
                 (participantId :> storedDetails(participantId)) @@
                 (up.userId :> detailsOf(up.displayName, up)),
              unreadCount |-> 0]

\* The render of the component body, lines 98-121 and 143-217, with the
\* search query q, followed by the effects of lines 21-25.
renderPage(q) ==
    /\ IF ~isInitialized
       THEN /\ view' = "spinner"
            /\ allChats' = <<>>
            /\ filteredChats' = <<>>
            /\ items' = <<>>
       ELSE LET all == createCombinedChatList(userProfile, chats, pairedUsers)
                filtered == filterChats(all, userProfile, pairedUsers, q)
            IN  /\ allChats' = all
                /\ filteredChats' = filtered
                /\ view' = IF Len(filtered) = 0 THEN "empty" ELSE "list"
                /\ items' = IF Len(filtered) = 0 THEN <<>>
                             ELSE listItems(filtered, userProfile, pairedUsers)
    /\ routerPath' = onboardingEffect(isInitialized, userProfile, routerPath)

-----------------------------------------------------------------------------
(* The state machine *)

InitWith(chatLists, pairedLists) ==
    /\ userProfile \in Profiles
    /\ chats \in chatLists
    /\ pairedUsers \in pairedLists
    /\ isInitialized \in BOOLEAN
    /\ searchQuery = <<>>
    /\ view = "unmounted"
    /\ allChats = <<>>
    /\ filteredChats = <<>>
    /\ items = <<>>
    /\ routerPath = "/chat"
    /\ location = ""
    /\ createCalls = <<>>

Init == InitWith(ChatLists({0}, MaxChats), PairedLists(MaxPaired))

\* The first render of the page.
Render ==
    /\ view = "unmounted"
    /\ renderPage(searchQuery)
    /\ UNCHANGED <<userProfile, chats, pairedUsers, isInitialized, searchQuery,
                   location, createCalls>>

\* The context finishes loading and the page renders again.
ContextInitialized ==
    /\ view = "spinner"
    /\ ~isInitialized
    /\ isInitialized' = TRUE
    /\ LET all == createCombinedChatList(userProfile, chats, pairedUsers)
           filtered == filterChats(all, userProfile, pairedUsers, searchQuery)
       IN  /\ allChats' = all
           /\ filteredChats' = filtered
           /\ view' = IF Len(filtered) = 0 THEN "empty" ELSE "list"
           /\ items' = IF Len(filtered) = 0 THEN <<>>
                        ELSE listItems(filtered, userProfile, pairedUsers)
    /\ routerPath' = onboardingEffect(TRUE, userProfile, routerPath)
    /\ UNCHANGED <<userProfile, chats, pairedUsers, searchQuery, location,
                   createCalls>>

\* onChange of the search box: setSearchQuery(e.target.value), and the
\* render that follows it.
SetSearchQuery(q) ==
    /\ view \in {"empty", "list"}
    /\ routerPath = "/chat"
    /\ location = ""
    /\ q # searchQuery
    /\ searchQuery' = q
    /\ renderPage(q)
    /\ UNCHANGED <<userProfile, chats, pairedUsers, isInitialized, location,
                   createCalls>>

\* onClick of list item i: handleChatClick(chat.chatId, otherParticipantId)
handleChatClick(i) ==
    /\ view = "list"
    /\ location = ""
    /\ i \in 1..Len(items)
    /\ items[i] # Null
    /\ LET chatId == items[i].key
           participantId == items[i].participantId
       IN  IF chatId # ""
           THEN /\ location' = messagesRoute(chatId)
                /\ UNCHANGED <<chats, createCalls>>
           ELSE IF participantId # NoId /\ userProfile # Null
           THEN LET paired == findPairedUser(pairedUsers, participantId)
                    name == clickName(pairedUsers, participantId)
                    chat == createOrGetChat(chats, userProfile, participantId)
                    call == IF paired # Null /\ "avatar" \in DOMAIN paired
                            THEN [participantId |-> participantId,
                                  displayName |-> name, avatar |-> paired.avatar]
                            ELSE [participantId |-> participantId,
                                  displayName |-> name]
                IN  /\ createCalls' = Append(createCalls, call)
                    /\ chats' = IF \E k \in 1..Len(chats) : chats[k] = chat
                                 THEN chats ELSE Append(chats, chat)
                    /\ location' = messagesRoute(chat.chatId)
           ELSE UNCHANGED <<location, chats, createCalls>>
    /\ UNCHANGED <<userProfile, pairedUsers, isInitialized, searchQuery, view,
                   allChats, filteredChats, items, routerPath>>

Next ==
    \/ Render
    \/ ContextInitialized
    \/ \E q \in Queries : SetSearchQuery(q)
    \/ \E i \in 1..(MaxChats + MaxPaired) : handleChatClick(i)

Spec == Init /\ [][Next]_vars

\* The page over conversations of every unread count up to MaxUnread.
BadgeInit == InitWith(ChatLists(0..MaxUnread, 1), PairedLists(1))

BadgeSpec == BadgeInit /\ [][Next]_vars

-----------------------------------------------------------------------------
(* Properties *)

\* The page has rendered the list for a loaded profile.
Reconciled == view \in {"empty", "list"} /\ userProfile # Null

selfId == userProfile.userId

PairedIndexes == 1..Len(pairedUsers)
OutputIndexes == 1..Len(allChats)

\* Some conversation of chats has both selfId and id among its participants.
HasConversation(id) ==
    \E k \in 1..Len(chats) : {selfId, id} \subseteq pairOf(chats[k])

\* The entries of the output for the unordered pair {selfId, id}.
EntriesForPair(id) == { i \in OutputIndexes : pairOf(allChats[i]) = {selfId, id} }

\* Entry e of the output is the placeholder the specification describes for
\* the contact with user id `id`.
IsPlaceholderFor(e, id) ==
    /\ "isPending" \in DOMAIN e
    /\ e.isPending = TRUE
    /\ e.participants = (IF CodeUnit[selfId] <= CodeUnit[id]
                         THEN <<selfId, id>> ELSE <<id, selfId>>)
    /\ e.chatId = e.participants[1] \o "_" \o e.participants[2]
    /\ e.unreadCount = 0
    /\ "lastMessage" \notin DOMAIN e
    /\ {selfId, id} \subseteq DOMAIN e.participantDetails

\* C1: the list returned by createCombinedChatList holds no two entries with
\* the same unordered participant pair, whatever chats and pairedUsers are.
C1_NoDuplicatePairs ==
    Reconciled =>
        \A i, j \in OutputIndexes :
            i # j => pairOf(allChats[i]) # pairOf(allChats[j])

\* C2: for every paired contact without a conversation with selfId, the
\* output holds exactly one placeholder for the contact: sorted participants,
\* chatId the sorted pair joined with '_', isPending, unreadCount 0, no
\* lastMessage, details for both participants.
C2_ExactlyOnePlaceholder ==
    Reconciled =>
        \A k \in PairedIndexes :
            ~HasConversation(pairedUsers[k].userId) =>
                Cardinality({ i \in OutputIndexes :
                    IsPlaceholderFor(allChats[i], pairedUsers[k].userId) }) = 1

\* C3 as stated: for every paired contact that has a conversation with
\* selfId, the output holds exactly one entry for the pair {selfId, userId}
\* and it is the real conversation.
C3_ExistingConversationOnly ==
    Reconciled =>
        \A k \in PairedIndexes :
            HasConversation(pairedUsers[k].userId) =>
                /\ Cardinality(EntriesForPair(pairedUsers[k].userId)) = 1
                /\ \A i \in EntriesForPair(pairedUsers[k].userId) :
                        ~isPendingChat(allChats[i])

\* C3 as amended: the same for every paired contact other than the local
\* user.
C3_ExistingConversationOnlyOthers ==
    Reconciled =>
        \A k \in PairedIndexes :
            (pairedUsers[k].userId # selfId
                /\ HasConversation(pairedUsers[k].userId)) =>
                /\ Cardinality(EntriesForPair(pairedUsers[k].userId)) = 1
                /\ \A i \in EntriesForPair(pairedUsers[k].userId) :
                        /\ ~isPendingChat(allChats[i])
                        /\ \E c \in 1..Len(chats) : chats[c] = allChats[i]

C3_Witness ==
    /\ Reconciled
    /\ Len(allChats) > Len(chats)
    /\ \E k \in PairedIndexes :
          /\ pairedUsers[k].userId # selfId
          /\ HasConversation(pairedUsers[k].userId)

\* C4: the output is the input chats in their order followed by the
\* placeholders: its first Len(chats) entries are chats, element by
\* element, none of them pending, and every later entry is a placeholder.
C4_ChatsThenPlaceholders ==
    Reconciled =>
        /\ Len(allChats) >= Len(chats)
        /\ \A i \in 1..Len(chats) :
              allChats[i] = chats[i] /\ ~isPendingChat(allChats[i])
        /\ \A i \in (Len(chats) + 1)..Len(allChats) :
              "isPending" \in DOMAIN allChats[i] /\ allChats[i].isPending = TRUE

C4_Witness ==
    /\ Reconciled
    /\ Len(chats) = MaxChats
    /\ Len(allChats) >= Len(chats) + 2

\* C5: when pairedUsers holds an entry with the local user's id, no entry of
\* the output has the same id twice as its participants.
C5_NoSelfConversation ==
    (Reconciled /\ \E k \in PairedIndexes : pairedUsers[k].userId = selfId) =>
        \A i \in OutputIndexes :
            allChats[i].participants[1] # allChats[i].participants[2]

\* The name of the nickname-override precedence for the other participant:
\* the paired contact's localDisplayName, else its displayName, else the
\* name stored in the conversation.
ResolvedName(chat, other) ==
    LET named == { k \in PairedIndexes : pairedUsers[k].userId = other }
        first == CHOOSE k \in named : \A j \in named : k <= j
    IN  IF named # {} /\ "localDisplayName" \in DOMAIN pairedUsers[first]
           /\ pairedUsers[first].localDisplayName # <<>>
        THEN pairedUsers[first].localDisplayName
        ELSE IF named # {}
        THEN pairedUsers[first].displayName
        ELSE chat.participantDetails[other].displayName

\* C6: the search filter matches the query against the name resolved with
\* the nickname-override precedence, the name the list item displays: a
\* real conversation with the local user is kept exactly when that name
\* holds the query, case-insensitively.
C6_FilterMatchesDisplayedName ==
    Reconciled =>
        \A i \in OutputIndexes :
            LET chat == allChats[i]
                others == pairOf(chat) \ {selfId}
            IN  (~isPendingChat(chat) /\ selfId \in pairOf(chat) /\ others # {}) =>
                    LET other == CHOOSE id \in others : TRUE
                    IN  (\E j \in 1..Len(filteredChats) : filteredChats[j] = chat)
                        <=> includes(toLowerCase(ResolvedName(chat, other)),
                                     toLowerCase(searchQuery))

\* C7: without a profile createCombinedChatList and the filter return the
\* empty list for every chats and pairedUsers, and once isInitialized is
\* true the rendered page shows no chat and has redirected to /onboarding.
C7_NoProfileEmptyAndRedirect ==
    userProfile = Null =>
        /\ createCombinedChatList(userProfile, chats, pairedUsers) = <<>>
        /\ \A q \in Queries :
              filterChats(createCombinedChatList(userProfile, chats, pairedUsers),
                          userProfile, pairedUsers, q) = <<>>
        /\ allChats = <<>>
        /\ filteredChats = <<>>
        /\ (view # "unmounted" /\ isInitialized) =>
              (view = "empty" /\ routerPath = "/onboarding")

C7_Witness ==
    /\ userProfile = Null
    /\ isInitialized
    /\ view = "empty"
    /\ routerPath = "/onboarding"
    /\ Len(chats) = MaxChats
    /\ Len(pairedUsers) = MaxPaired

DecimalText ==
    <<"1", "2", "3", "4", "5", "6", "7", "8", "9">>

\* C8: a list item shows the unread badge iff unreadCount > 0; the text is
\* '9+' for every count above 9 and the count itself for 1..9; and the
\* rendered conversation is the one of the input, its unreadCount unchanged.
C8_UnreadBadge ==
    \A i \in 1..Len(items) :
        LET n == filteredChats[i].unreadCount
        IN  /\ items[i] # Null
            /\ ("badge" \in DOMAIN items[i]) <=> (n > 0)
            /\ n > 9 => items[i].badge = "9+"
            /\ n \in 1..9 => items[i].badge = DecimalText[n]
            /\ items[i].unreadCount = n
            /\ ~isPendingChat(filteredChats[i]) =>
                  \E k \in 1..Len(chats) : chats[k] = filteredChats[i]

C8_Witness ==
    /\ view = "list"
    /\ \E i \in 1..Len(items) :
          /\ filteredChats[i].unreadCount = MaxUnread
          /\ items[i].badge = "9+"

\* C9: a conversation whose participants do not include the local user is
\* in the filtered list for no search query.
C9_ForeignConversationExcluded ==
    Reconciled =>
        \A j \in 1..Len(filteredChats) : selfId \in pairOf(filteredChats[j])

\* C10: the page never navigates to /chat/messages/<chatId> of a pending
\* placeholder without a createOrGetChat call for its other participant
\* before.
C10_PlaceholderCreatedBeforeNavigation ==
    \A i \in OutputIndexes :
        (isPendingChat(allChats[i])
            /\ location = "/chat/messages/" \o allChats[i].chatId) =>
            \E k \in 1..Len(createCalls) :
                createCalls[k].participantId \in pairOf(allChats[i])

====
